---- MODULE Spec2Model ----
(***************************************************************************)
(* A model of the backtest engine (src/backtest_engine.py) and of its      *)
(* position manager (src/position_manager.py) over the MongoDB collections *)
(* `positions` and `trades` (src/db_schema.py).                            *)
(*                                                                         *)
(* Numbers are fixed point.  A price is an integer number of ticks, one    *)
(* price unit being PriceScale ticks, and every bar or signal price is a   *)
(* whole number of price units, so that price * (1 -+ slippage) is exact.  *)
(* A quantity is an integer number of 10^-SYMBOL_PRECISION units.  A       *)
(* timestamp is the index of its hour.                                     *)
(*                                                                         *)
(* Three specifications: Spec is one run of BacktestEngine.run from an     *)
(* empty store whose calls all succeed; SpecFault is the same run over a   *)
(* store whose calls inside open_position and close_position may raise;    *)
(* SpecPM is a caller that uses open_position and close_position directly. *)
(* The queries of get_open_positions and has_open_position are taken to    *)
(* succeed in all three.                                                   *)
(***************************************************************************)
EXTENDS Integers, Sequences, FiniteSets, TLC

VARIABLES
    positions,       \* db.positions: the sequence of documents, _id = index
    trades,          \* db.trades: the sequence of trade documents
    tlog,            \* per trade (same index): the position it closed, the bar being
                     \* processed and the loop that closed it (not part of the store)
    pc,              \* where BacktestEngine.run stands
    sym,             \* index into self.symbols of the symbol being replayed
    bars,            \* df_processed of the symbol being replayed
    bi,              \* index of the bar the loop `for idx, bar in df_processed.iterrows()` is at
    queue,           \* the rest of the open_positions list being iterated (ids)
    current_signal,  \* current_signal: a signal, or NoSignal when the iterator is exhausted
    nsig,            \* how many signals next(signals_iter) has yielded for this symbol
    call,            \* the last PositionManager call made by a direct caller
    result           \* what that call returned

vars == <<positions, trades, tlog, pc, sym, bars, bi, queue, current_signal, nsig, call, result>>

(***************************************************************************)
(* Bounds of the model.                                                    *)
(***************************************************************************)
NBars == 3
MaxSignals == 3
MaxCalls == 3
ScanLen == 3
SizeRange == 3
StoreLen == 3
FetchUntil == 7

(***************************************************************************)
(* Configuration (Config_q.Config, read in PositionManager.__init__ and    *)
(* IndicatorCalculator.__init__).  slippage = SLIPPAGE / PriceScale,       *)
(* fee_rate = FEE_RATE / FeeScale, risk_per_trade = RISK_PER_TRADE /       *)
(* PctScale, max_risk = MAX_RISK / PctScale.                               *)
(***************************************************************************)
SYMBOLS == <<"BTC/USDT">>
PriceScale == 1000
PctScale == 100
FeeScale == 10000
SLIPPAGE == 1
FEE_RATE == 4
RISK_PER_TRADE == 1
STOP_LOSS_ATR == 2
TAKE_PROFIT_ATR == 3
LEVERAGE == 1
SYMBOL_PRECISION == 0
CAPITAL == 1000
MAX_POSITIONS == 2
MAX_RISK == 5

\* Python's None where a number is expected (prices, quantities are never negative here).
None == 0 - 1

P(x) == x * PriceScale

\* float('nan'), an atr_14 that is missing: a value no atr_14 of a frame has.
NaN == 0 - 3

\* float('inf'), the quotient numpy gives for a division by a numpy.float64 zero.
Inf == 2147483647

Abs(x) == IF x < 0 THEN 0 - x ELSE x

\* The second argument whatever the first is.
Max_second(a, b) == b

Max(a, b) == IF a >= b THEN a ELSE b

Min(a, b) == IF a <= b THEN a ELSE b

RECURSIVE Pow10(_)
Pow10(n) == IF n = 0 THEN 1 ELSE 10 * Pow10(n - 1)

QtyScale == Pow10(SYMBOL_PRECISION)

\* round(n / d) for n >= 0, d > 0: to the nearest integer, halves to the even one.
RoundDiv(n, d) ==
    LET q == n \div d
        r == n % d
    IN  IF 2 * r < d THEN q
        ELSE IF 2 * r > d THEN q + 1
        ELSE IF q % 2 = 0 THEN q ELSE q + 1

\* datetime.isoformat() and pd.to_datetime() of the string it gives.
IsoFormat(t) == <<"iso", t>>

ToDatetime(s) == s[2]

(***************************************************************************)
(* PositionManager                                                         *)
(***************************************************************************)

\* calculate_position_size: the quantity in 10^-SYMBOL_PRECISION units.  A zero
\* divisor is that of Python numbers: ZeroDivisionError, caught, 0 returned.  A
\* negative divisor raises nothing: the quotient is rounded and returned.
calculate_position_size(symbol, entry_price, atr, capital) ==
    LET risk_amount == capital * RISK_PER_TRADE * PriceScale * QtyScale
        divisor == PctScale * atr * STOP_LOSS_ATR * LEVERAGE
    IN  IF divisor = 0 THEN 0
        ELSE IF divisor < 0 THEN 0 - RoundDiv(risk_amount, 0 - divisor)
        ELSE RoundDiv(risk_amount, divisor)

\* get_open_positions: the ids of the documents with status 'open', in _id order.
get_open_positions(pos) ==
    SelectSeq([i \in 1..Len(pos) |-> i], LAMBDA i : pos[i].status = "open")

RECURSIVE SumRisk(_, _)
SumRisk(pos, ids) ==
    IF ids = <<>> THEN 0
    ELSE Abs(pos[Head(ids)].entry_price - pos[Head(ids)].stop_loss) * pos[Head(ids)].qty
         + SumRisk(pos, Tail(ids))

\* The risk of the open positions as check_position_limit sums it, in ticks * quantity units.
total_risk(pos) == SumRisk(pos, get_open_positions(pos))

\* max_risk * capital in the same units.
RiskLimit == (MAX_RISK * CAPITAL * PriceScale * QtyScale) \div PctScale

\* check_position_limit rejecting also a total risk equal to the limit.
check_position_limit_atlimit(pos, symbol, side, entry_price, atr) ==
    LET open == get_open_positions(pos)
        qty == calculate_position_size(symbol, entry_price, atr, CAPITAL)
        stop_loss_price == IF side = "long" THEN entry_price - atr * STOP_LOSS_ATR
                           ELSE entry_price + atr * STOP_LOSS_ATR
        new_risk == Abs(entry_price - stop_loss_price) * qty
    IN  IF qty <= 0 THEN None
        ELSE IF Len(open) >= MAX_POSITIONS THEN None
        ELSE IF total_risk(pos) + new_risk >= RiskLimit THEN None
        ELSE qty

\* check_position_limit without the test of len(positions) against max_positions.
check_position_limit_nocount(pos, symbol, side, entry_price, atr) ==
    LET qty == calculate_position_size(symbol, entry_price, atr, CAPITAL)
        stop_loss_price == IF side = "long" THEN entry_price - atr * STOP_LOSS_ATR
                           ELSE entry_price + atr * STOP_LOSS_ATR
        new_risk == Abs(entry_price - stop_loss_price) * qty
    IN  IF qty <= 0 THEN None
        ELSE IF total_risk(pos) + new_risk > RiskLimit THEN None
        ELSE qty

check_position_limit(pos, symbol, side, entry_price, atr) ==
    LET open == get_open_positions(pos)
        qty == calculate_position_size(symbol, entry_price, atr, CAPITAL)
        stop_loss_price == IF side = "long" THEN entry_price - atr * STOP_LOSS_ATR
                           ELSE entry_price + atr * STOP_LOSS_ATR
        new_risk == Abs(entry_price - stop_loss_price) * qty
    IN  IF qty <= 0 THEN None
        ELSE IF Len(open) >= MAX_POSITIONS THEN None
        ELSE IF total_risk(pos) + new_risk > RiskLimit THEN None
        ELSE qty

\* The query finding nothing.
has_open_position_never(pos, symbol, side, entry_price) == FALSE

has_open_position(pos, symbol, side, entry_price) ==
    \E i \in 1..Len(pos) :
        /\ pos[i].symbol = symbol
        /\ pos[i].side = side
        /\ pos[i].entry_price = entry_price
        /\ pos[i].status = "open"

\* The document open_position builds.
position_doc(id, symbol, side, entry_price, entry_time, qty, atr, stop_loss, take_profit) ==
    [id |-> id, symbol |-> symbol, side |-> side, qty |-> qty,
     entry_price |-> entry_price, atr |-> atr,
     stop_loss |-> IF stop_loss # None THEN stop_loss ELSE 0,
     take_profit |-> IF take_profit # None THEN take_profit ELSE 0,
     open_time |-> IsoFormat(entry_time), status |-> "open"]

\* open_position: the positions collection afterwards; insert_one may raise (fault).
open_position(pos, symbol, side, entry_price, entry_time, qty, atr, stop_loss, take_profit, fault) ==
    IF fault = "insert" THEN [positions |-> pos, ok |-> FALSE]
    ELSE [positions |-> Append(pos, position_doc(Len(pos) + 1, symbol, side, entry_price,
                                                 entry_time, qty, atr, stop_loss, take_profit)),
          ok |-> TRUE]

NotExited == [exited |-> FALSE, exit_price |-> None, exit_time |-> None, reason |-> "None"]

\* The bar loop's body with the take-profit test before the stop-loss test.
ExitOnBar_takefirst(position, bar) ==
    LET stop == position.stop_loss
        take == position.take_profit
    IN  IF stop = None \/ take = None
        THEN NotExited
        ELSE IF position.side = "long"
        THEN IF bar.high >= take
             THEN [exited |-> TRUE,
                   exit_price |-> (take * (PriceScale - SLIPPAGE)) \div PriceScale,
                   exit_time |-> bar.timestamp, reason |-> "take_profit"]
             ELSE IF bar.low <= stop
             THEN [exited |-> TRUE,
                   exit_price |-> (stop * (PriceScale - SLIPPAGE)) \div PriceScale,
                   exit_time |-> bar.timestamp, reason |-> "stop_loss"]
             ELSE NotExited
        ELSE IF position.side = "short"
        THEN IF bar.low <= take
             THEN [exited |-> TRUE,
                   exit_price |-> (Min(bar.open, take) * (PriceScale + SLIPPAGE)) \div PriceScale,
                   exit_time |-> bar.timestamp, reason |-> "take_profit"]
             ELSE IF bar.high >= stop
             THEN [exited |-> TRUE,
                   exit_price |-> (Max(bar.open, stop) * (PriceScale + SLIPPAGE)) \div PriceScale,
                   exit_time |-> bar.timestamp, reason |-> "stop_loss"]
             ELSE NotExited
        ELSE NotExited

\* One bar of the scan of check_exit_conditions.
ExitOnBar(position, bar) ==
    LET stop == position.stop_loss
        take == position.take_profit
    IN  IF stop = None \/ take = None
        THEN NotExited
        ELSE IF position.side = "long"
        THEN IF bar.low <= stop
             THEN [exited |-> TRUE,
                   exit_price |-> (stop * (PriceScale - SLIPPAGE)) \div PriceScale,
                   exit_time |-> bar.timestamp, reason |-> "stop_loss"]
             ELSE IF bar.high >= take
             THEN [exited |-> TRUE,
                   exit_price |-> (take * (PriceScale - SLIPPAGE)) \div PriceScale,
                   exit_time |-> bar.timestamp, reason |-> "take_profit"]
             ELSE NotExited
        ELSE IF position.side = "short"
        THEN IF bar.high >= stop
             THEN [exited |-> TRUE,
                   exit_price |-> (Max(bar.open, stop) * (PriceScale + SLIPPAGE)) \div PriceScale,
                   exit_time |-> bar.timestamp, reason |-> "stop_loss"]
             ELSE IF bar.low <= take
             THEN [exited |-> TRUE,
                   exit_price |-> (Min(bar.open, take) * (PriceScale + SLIPPAGE)) \div PriceScale,
                   exit_time |-> bar.timestamp, reason |-> "take_profit"]
             ELSE NotExited
        ELSE NotExited

\* The scan without the filter on the position's open time.
RECURSIVE ScanBars_nofilter(_, _, _)
ScanBars_nofilter(position, df, j) ==
    IF j > Len(df) THEN NotExited
    ELSE IF ExitOnBar(position, df[j]).exited
         THEN ExitOnBar(position, df[j])
         ELSE ScanBars_nofilter(position, df, j + 1)

RECURSIVE ScanBars(_, _, _)
ScanBars(position, df, j) ==
    IF j > Len(df) THEN NotExited
    ELSE IF df[j].timestamp >= ToDatetime(position.open_time)
            /\ ExitOnBar(position, df[j]).exited
         THEN ExitOnBar(position, df[j])
         ELSE ScanBars(position, df, j + 1)

\* check_exit_conditions(position, df): the first bar of df, from the position's
\* open time on, on which a trigger fires.
check_exit_conditions(position, df) == ScanBars(position, df, 1)

\* The trade document with the gross pnl of a long position for either side.
trade_doc_longsign(position, exit_price, exit_time, reason) ==
    LET gross_pnl == (exit_price - position.entry_price) * position.qty
        fee == (Abs(position.entry_price) + Abs(exit_price)) * position.qty * FEE_RATE
    IN  [symbol |-> position.symbol, side |-> position.side, qty |-> position.qty,
         entry_price |-> position.entry_price, exit_price |-> exit_price,
         open_time |-> position.open_time, close_time |-> IsoFormat(exit_time),
         gross_pnl |-> gross_pnl, fee |-> fee,
         pnl |-> gross_pnl * FeeScale * LEVERAGE - fee,
         reason |-> reason]

\* The document close_position builds (money in ticks * quantity units; the fee
\* and the net pnl over FeeScale * LEVERAGE).
trade_doc(position, exit_price, exit_time, reason) ==
    LET gross_pnl == IF position.side = "long"
                     THEN (exit_price - position.entry_price) * position.qty
                     ELSE (position.entry_price - exit_price) * position.qty
        fee == (Abs(position.entry_price) + Abs(exit_price)) * position.qty * FEE_RATE
    IN  [symbol |-> position.symbol, side |-> position.side, qty |-> position.qty,
         entry_price |-> position.entry_price, exit_price |-> exit_price,
         open_time |-> position.open_time, close_time |-> IsoFormat(exit_time),
         gross_pnl |-> gross_pnl, fee |-> fee,
         pnl |-> gross_pnl * FeeScale * LEVERAGE - fee,
         reason |-> reason]

\* The status update left out.
SetClosed_noupdate(pos, id) == pos

\* An update that also writes the quantity.
SetClosed_resized(pos, id) == [pos EXCEPT ![id].status = "closed", ![id].qty = 0]

\* The status update of close_position.
SetClosed(pos, id) == [pos EXCEPT ![id].status = "closed"]

\* close_position without the test of `position is None`: a trade is written for
\* an id that matches nothing.
close_position_nolookup(pos, trd, log, position_id, exit_price, exit_time, reason, at, fault) ==
    LET found == position_id \in 1..Len(pos)
        position == IF found THEN pos[position_id]
                    ELSE position_doc(position_id, "", "long", 0, 0, 0, 0, None, None)
        closed == IF found THEN SetClosed(pos, position_id) ELSE pos
    IN  IF fault \in {"find", "update"}
        THEN [positions |-> pos, trades |-> trd, tlog |-> log, ok |-> FALSE]
        ELSE IF fault = "insert"
        THEN [positions |-> closed, trades |-> trd, tlog |-> log, ok |-> FALSE]
        ELSE [positions |-> closed,
              trades |-> Append(trd, trade_doc(position, exit_price, exit_time, reason)),
              tlog |-> Append(log, [pid |-> position_id, at |-> at.at, phase |-> at.phase]),
              ok |-> TRUE]

\* close_position: the store afterwards and whether a trade was returned.  `at` is
\* the caller's place, [pid, at, phase] with pid filled in here (kept in tlog, not
\* in the store).  fault: the store call that raises, if any ("find", "update",
\* "insert").
close_position(pos, trd, log, position_id, exit_price, exit_time, reason, at, fault) ==
    IF fault = "find" \/ position_id \notin 1..Len(pos)
    THEN [positions |-> pos, trades |-> trd, tlog |-> log, ok |-> FALSE]
    ELSE IF fault = "update"
    THEN [positions |-> pos, trades |-> trd, tlog |-> log, ok |-> FALSE]
    ELSE IF fault = "insert"
    THEN [positions |-> SetClosed(pos, position_id), trades |-> trd, tlog |-> log, ok |-> FALSE]
    ELSE [positions |-> SetClosed(pos, position_id),
          trades |-> Append(trd, trade_doc(pos[position_id], exit_price, exit_time, reason)),
          tlog |-> Append(log, [pid |-> position_id, at |-> at.at, phase |-> at.phase]),
          ok |-> TRUE]

(***************************************************************************)
(* The inputs: bars and signals of the store.                              *)
(***************************************************************************)
\* A quiet bar, and a falling bar that reaches the stop of a long signal and the
\* take of a short one.
BarShapes ==
    { [open |-> P(10), high |-> P(11), low |-> P(10), close |-> P(10), atr_14 |-> P(1)],
      [open |-> P(9),  high |-> P(10), low |-> P(7),  close |-> P(8),  atr_14 |-> P(2)] }

Bar(shape, t) ==
    [timestamp |-> t, open |-> shape.open, high |-> shape.high, low |-> shape.low,
     close |-> shape.close, atr_14 |-> shape.atr_14]

\* The frames fetch_ohlcv and the merge can give: NBars bars, timestamps ascending.
BarFrames ==
    { [i \in 1..NBars |-> Bar(f[i], i)] : f \in [1..NBars -> BarShapes] }

NoSignal == [timestamp |-> None, signal_type |-> "None", value |-> None,
             stop_loss |-> None, take_profit |-> None]

\* A signal document as SignalGenerator.generate_signals writes it: the stop and
\* the take at STOP_LOSS_ATR and TAKE_PROFIT_ATR times the atr (one price unit)
\* from the close; has_stop = FALSE is a document whose stop_loss is null.
Signal(t, side, v, has_stop) ==
    [timestamp |-> t, signal_type |-> side, value |-> P(v),
     stop_loss |-> IF ~has_stop THEN None
                   ELSE IF side = "long" THEN P(v) - STOP_LOSS_ATR * P(1)
                   ELSE P(v) + STOP_LOSS_ATR * P(1),
     take_profit |-> IF side = "long" THEN P(v) + TAKE_PROFIT_ATR * P(1)
                     ELSE P(v) - TAKE_PROFIT_ATR * P(1)]

\* The signals the store may hold.
Signals ==
    UNION { { Signal(t, "long", 10, TRUE), Signal(t, "short", 10, TRUE),
              Signal(t, "long", 11, TRUE), Signal(t, "long", 11, FALSE),
              Signal(t, "short", 11, FALSE) } : t \in 1..NBars }

\* next(signals_iter, None): the list is sorted by timestamp, so what follows the
\* signal `cur` is no earlier than it; the list holds at most MaxSignals signals.
NextSignals(cur, n) ==
    {NoSignal} \cup (IF n < MaxSignals THEN {s \in Signals : s.timestamp >= cur.timestamp} ELSE {})

(***************************************************************************)
(* BacktestEngine.run                                                      *)
(***************************************************************************)
Init ==
    /\ positions = <<>>
    /\ trades = <<>>
    /\ tlog = <<>>
    /\ pc = "symbol"
    /\ sym = 1
    /\ bars = <<>>
    /\ bi = 0
    /\ queue = <<>>
    /\ current_signal = NoSignal
    /\ nsig = 0
    /\ call = [op |-> "none", id |-> 0]
    /\ result = "none"

current_time == bars[bi].timestamp

\* for symbol in self.symbols: one of the `continue`s (no bars, no indicators, no signals).
SkipSymbol ==
    /\ pc = "symbol"
    /\ sym <= Len(SYMBOLS)
    /\ sym' = sym + 1
    /\ UNCHANGED <<positions, trades, tlog, pc, bars, bi, queue, current_signal, nsig, call, result>>

\* The top of the bar loop: open_positions = self.pm.get_open_positions(), and
\* where the loop stands with that list.
AfterSnapshot(pos) == IF get_open_positions(pos) = <<>> THEN "entry" ELSE "exit"

\* for symbol in self.symbols: the frames are read, the first signal is taken and
\* the bar loop starts at the first bar.
StartReplay ==
    /\ pc = "symbol"
    /\ sym <= Len(SYMBOLS)
    /\ \E df \in BarFrames : bars' = df
    /\ \E s \in NextSignals(NoSignal, nsig) \ {NoSignal} : current_signal' = s
    /\ nsig' = nsig + 1
    /\ bi' = 1
    /\ queue' = get_open_positions(positions)
    /\ pc' = AfterSnapshot(positions)
    /\ UNCHANGED <<positions, trades, tlog, sym, call, result>>

\* "All backtests complete."
Complete ==
    /\ pc = "symbol"
    /\ sym > Len(SYMBOLS)
    /\ pc' = "complete"
    /\ UNCHANGED <<positions, trades, tlog, sym, bars, bi, queue, current_signal, nsig, call, result>>

\* data_since_entry = df_processed[df_processed['timestamp'] >= open_time]
data_since_entry(pos) ==
    SelectSeq(bars, LAMBDA b : b.timestamp >= ToDatetime(pos.open_time))

\* One iteration of `for pos in open_positions` of the exit phase.
ExitStepWith(fault) ==
    /\ pc = "exit"
    /\ queue # <<>>
    /\ LET pos == positions[Head(queue)]
           x == check_exit_conditions(pos, data_since_entry(pos))
           c == close_position(positions, trades, tlog, pos.id, x.exit_price, x.exit_time,
                               x.reason, [at |-> current_time, phase |-> "exit"], fault)
       IN  IF x.exited
           THEN /\ positions' = c.positions
                /\ trades' = c.trades
                /\ tlog' = c.tlog
           ELSE /\ fault = "none"
                /\ UNCHANGED <<positions, trades, tlog>>
    /\ queue' = Tail(queue)
    /\ pc' = IF Tail(queue) = <<>> THEN "entry" ELSE "exit"
    /\ UNCHANGED <<sym, bars, bi, current_signal, nsig, call, result>>

ExitStep == ExitStepWith("none")

\* The loop condition without the comparison of the timestamps.
SignalDue_anytime == current_signal # NoSignal

SignalDue == current_signal # NoSignal /\ current_signal.timestamp <= current_time

\* The test `if qty != 0`: a None is let through.
SizeAdmitted_notzero(qty) == qty # 0

\* The test left out: whatever check_position_limit returned is opened.
SizeAdmitted_any(qty) == TRUE

\* if qty and qty > 0
SizeAdmitted(qty) == qty # None /\ qty # 0 /\ qty > 0

\* One iteration of `while current_signal and current_signal.timestamp <= current_time`.
EntryStepWith(fault) ==
    /\ pc = "entry"
    /\ SignalDue
    /\ LET s == current_signal
           atr_val == bars[bi].atr_14
           symbol == SYMBOLS[sym]
           qty == check_position_limit(positions, symbol, s.signal_type, s.value, atr_val)
       IN  IF atr_val = NaN
           THEN /\ fault = "none"
                /\ UNCHANGED positions
           ELSE IF SizeAdmitted(qty)
              /\ ~has_open_position(positions, symbol, s.signal_type, s.value)
           THEN positions' = open_position(positions, symbol, s.signal_type, s.value,
                                           current_time, qty, atr_val, s.stop_loss,
                                           s.take_profit, fault).positions
           ELSE /\ fault = "none"
                /\ UNCHANGED positions
    /\ \E n \in NextSignals(current_signal, nsig) :
        /\ current_signal' = n
        /\ nsig' = IF n = NoSignal THEN nsig ELSE nsig + 1
    /\ UNCHANGED <<trades, tlog, pc, sym, bars, bi, queue, call, result>>

EntryStep == EntryStepWith("none")

\* The bar loop going round without moving to the next row.
NextBar_samebar ==
    /\ pc = "entry"
    /\ ~SignalDue
    /\ bi < Len(bars)
    /\ bi' = bi
    /\ queue' = get_open_positions(positions)
    /\ pc' = AfterSnapshot(positions)
    /\ UNCHANGED <<positions, trades, tlog, sym, bars, current_signal, nsig, call, result>>

\* No signal is due: the next bar, and its open_positions.
NextBar ==
    /\ pc = "entry"
    /\ ~SignalDue
    /\ bi < Len(bars)
    /\ bi' = bi + 1
    /\ queue' = get_open_positions(positions)
    /\ pc' = AfterSnapshot(positions)
    /\ UNCHANGED <<positions, trades, tlog, sym, bars, current_signal, nsig, call, result>>

\* The end of the bar loop running the exit phase of the last bar once more.
EndOfBars_rescan ==
    /\ pc = "entry"
    /\ ~SignalDue
    /\ bi = Len(bars)
    /\ queue' = get_open_positions(positions)
    /\ pc' = IF get_open_positions(positions) = <<>> THEN "force" ELSE "exit"
    /\ UNCHANGED <<positions, trades, tlog, sym, bars, bi, current_signal, nsig, call, result>>

\* The bars are exhausted: open_positions = self.pm.get_open_positions().
EndOfBars ==
    /\ pc = "entry"
    /\ ~SignalDue
    /\ bi = Len(bars)
    /\ queue' = get_open_positions(positions)
    /\ pc' = "force"
    /\ UNCHANGED <<positions, trades, tlog, sym, bars, bi, current_signal, nsig, call, result>>

\* iloc[0] in place of iloc[-1].
first_bar == bars[1]

\* last_bar = df_processed.iloc[-1]
last_bar == bars[Len(bars)]

\* The reason of another exit passed by mistake.
EndReason_copied == "stop_loss"

\* The reason the forced close passes to close_position.
EndReason == "End of Backtest"

\* One iteration of the forced close; trade['pnl'] of a None trade raises out of run.
ForceStepWith(fault) ==
    /\ pc = "force"
    /\ queue # <<>>
    /\ LET c == close_position(positions, trades, tlog, Head(queue), last_bar.close,
                               last_bar.timestamp, EndReason,
                               [at |-> last_bar.timestamp, phase |-> "force"], fault)
       IN  /\ positions' = c.positions
           /\ trades' = c.trades
           /\ tlog' = c.tlog
           /\ pc' = IF c.ok THEN "force" ELSE "crashed"
    /\ queue' = Tail(queue)
    /\ UNCHANGED <<sym, bars, bi, current_signal, nsig, call, result>>

ForceStep == ForceStepWith("none")

\* trades_list = list(self.pm.db.db.trades.find({})): the ledger handed to
\* PerformanceAnalyzer.
trades_list == trades

\* The performance analysis of the symbol, and the next symbol.
Report ==
    /\ pc = "force"
    /\ queue = <<>>
    /\ pc' = "symbol"
    /\ sym' = sym + 1
    /\ UNCHANGED <<positions, trades, tlog, bars, bi, queue, current_signal, nsig, call, result>>

Next ==
    \/ SkipSymbol
    \/ StartReplay
    \/ Complete
    \/ ExitStep
    \/ EntryStep
    \/ NextBar
    \/ EndOfBars
    \/ ForceStep
    \/ Report

\* A run of BacktestEngine.run over a store whose calls all succeed.
Spec == Init /\ [][Next]_vars

(***************************************************************************)
(* The same run over a store whose calls may raise inside open_position    *)
(* (insert_one) and close_position (find_one, update_one, insert_one):     *)
(* both catch the exception and return None.                               *)
(***************************************************************************)
CloseFaults == {"find", "update", "insert"}

ExitStepFault == \E f \in CloseFaults : ExitStepWith(f)

EntryStepFault == EntryStepWith("insert")

ForceStepFault == \E f \in CloseFaults : ForceStepWith(f)

NextFault ==
    \/ Next
    \/ ExitStepFault
    \/ EntryStepFault
    \/ ForceStepFault

SpecFault == Init /\ [][NextFault]_vars

(***************************************************************************)
(* A caller of PositionManager other than the engine: open_position and    *)
(* close_position called directly, with any id, on a store that may raise. *)
(***************************************************************************)
InitPM ==
    /\ positions = <<>>
    /\ trades = <<>>
    /\ tlog = <<>>
    /\ pc = "api"
    /\ sym = 1
    /\ bars = <<>>
    /\ bi = 0
    /\ queue = <<>>
    /\ current_signal = NoSignal
    /\ nsig = 0
    /\ call = [op |-> "none", id |-> 0]
    /\ result = "none"

\* The store holds at most MaxCalls documents.
RoomInStore == Len(positions) + Len(trades) < MaxCalls

PMOpen ==
    /\ pc = "api"
    /\ RoomInStore
    /\ \E s \in {x \in Signals : x.timestamp = 1}, atr \in {P(1)}, fault \in {"none", "insert"} :
        LET qty == calculate_position_size(SYMBOLS[sym], s.value, atr, CAPITAL)
            r == open_position(positions, SYMBOLS[sym], s.signal_type, s.value, s.timestamp,
                               qty, atr, s.stop_loss, s.take_profit, fault)
        IN  /\ positions' = r.positions
            /\ result' = IF r.ok THEN "position_doc" ELSE "None"
    /\ call' = [op |-> "open_position", id |-> 0]
    /\ UNCHANGED <<trades, tlog, pc, sym, bars, bi, queue, current_signal, nsig>>

PMClose ==
    /\ pc = "api"
    /\ RoomInStore
    /\ \E id \in 1..(Len(positions) + 1), exit_price \in {P(8), P(12)},
          reason \in {"stop_loss", EndReason}, fault \in {"none"} \cup CloseFaults :
        LET c == close_position(positions, trades, tlog, id, exit_price, NBars, reason,
                                [at |-> NBars, phase |-> "api"], fault)
        IN  /\ positions' = c.positions
            /\ trades' = c.trades
            /\ tlog' = c.tlog
            /\ result' = IF c.ok THEN "trade_doc" ELSE "None"
            /\ call' = [op |-> "close_position", id |-> id]
    /\ UNCHANGED <<pc, sym, bars, bi, queue, current_signal, nsig>>

NextPM == PMOpen \/ PMClose

SpecPM == InitPM /\ [][NextPM]_vars

(***************************************************************************)
(* The same run over a store that is not empty: the replay of a symbol     *)
(* that stood earlier in the list has left its position, closed by its     *)
(* forced close, and the trade of it (nothing in run empties the store).   *)
(***************************************************************************)
EarlierSymbol == "ETH/USDT"

EarlierPosition ==
    SetClosed(<<position_doc(1, EarlierSymbol, "long", P(10), 1,
                             calculate_position_size(EarlierSymbol, P(10), P(1), CAPITAL),
                             P(1), P(8), P(13))>>, 1)[1]

InitLater ==
    /\ positions = <<EarlierPosition>>
    /\ trades = <<trade_doc(EarlierPosition, P(10), NBars, EndReason)>>
    /\ tlog = <<[pid |-> 1, at |-> NBars, phase |-> "force"]>>
    /\ pc = "symbol"
    /\ sym = 1
    /\ bars = <<>>
    /\ bi = 0
    /\ queue = <<>>
    /\ current_signal = NoSignal
    /\ nsig = 0
    /\ call = [op |-> "none", id |-> 0]
    /\ result = "none"

SpecLater == InitLater /\ [][Next]_vars

(***************************************************************************)
(* The entry phase on a frame of one row whose atr_14 is any number the    *)
(* indicator store may hold, from the first signal on.                     *)
(***************************************************************************)
\* Quiet rows: an atr_14 that sizes to 5, one so large that the size rounds to 0,
\* a zero one and a negative one.
EntryBarShapes ==
    { [open |-> P(10), high |-> P(11), low |-> P(10), close |-> P(10), atr_14 |-> P(a)] :
        a \in {0 - 1, 0, 1, 11} }

\* The state StartReplay leaves on such a frame.
InitEntry ==
    /\ positions = <<>>
    /\ trades = <<>>
    /\ tlog = <<>>
    /\ pc = "entry"
    /\ sym = 1
    /\ \E shape \in EntryBarShapes : bars = <<Bar(shape, 1)>>
    /\ bi = 1
    /\ queue = <<>>
    /\ current_signal \in {s \in Signals : s.timestamp = 1}
    /\ nsig = 1
    /\ call = [op |-> "none", id |-> 0]
    /\ result = "none"

NextEntry ==
    \/ EntryStep
    \/ EndOfBars
    \/ ForceStep
    \/ Report
    \/ Complete

SpecEntry == InitEntry /\ [][NextEntry]_vars

(***************************************************************************)
(* check_exit_conditions as a function of its arguments: a position        *)
(* document and a frame of bars, called at any bar of the outer loop.      *)
(***************************************************************************)
\* Rows (open, high, low) around an entry at 10 or 11: quiet; wide enough to touch
\* every stop and take; opening on and above a short stop; falling to and opening
\* below a short take.
ExitBarShapes ==
    { [open |-> P(10), high |-> P(11), low |-> P(10), close |-> P(10), atr_14 |-> P(1)],
      [open |-> P(10), high |-> P(14), low |-> P(7),  close |-> P(10), atr_14 |-> P(1)],
      [open |-> P(12), high |-> P(13), low |-> P(11), close |-> P(12), atr_14 |-> P(1)],
      [open |-> P(13), high |-> P(14), low |-> P(12), close |-> P(13), atr_14 |-> P(1)],
      [open |-> P(8),  high |-> P(9),  low |-> P(7),  close |-> P(8),  atr_14 |-> P(1)],
      [open |-> P(6),  high |-> P(7),  low |-> P(5),  close |-> P(6),  atr_14 |-> P(1)] }

\* Frames of 1..ScanLen rows, timestamps ascending (fetch_ohlcv sorts by timestamp).
ExitFrames ==
    UNION { { [i \in 1..n |-> Bar(f[i], i)] : f \in [1..n -> ExitBarShapes] } : n \in 1..ScanLen }

\* Position documents: those open_position writes for the signals of the store,
\* opened at any bar, and a document whose stop_loss field is null.
ExitPositions ==
    LET written == { position_doc(1, SYMBOLS[1], s.signal_type, s.value, t,
                                  calculate_position_size(SYMBOLS[1], s.value, P(1), CAPITAL),
                                  P(1), s.stop_loss, s.take_profit) :
                     s \in {x \in Signals : x.timestamp = 1}, t \in 1..ScanLen }
    IN  written \cup { [d EXCEPT !.stop_loss = None] : d \in {w \in written : w.side = "short"} }

\* The arguments of a call: a position, the frame df_processed and the bar `at`
\* the outer loop stands at.
InitExit ==
    /\ positions = <<>>
    /\ trades = <<>>
    /\ tlog = <<>>
    /\ pc = "check_exit"
    /\ sym = 1
    /\ bars = <<>>
    /\ bi = 0
    /\ queue = <<>>
    /\ current_signal = NoSignal
    /\ nsig = 0
    /\ \E position \in ExitPositions, df \in ExitFrames :
        \E at \in 1..Len(df) :
            call = [op |-> "check_exit_conditions", position |-> position, df |-> df, at |-> at]
    /\ result = "none"

\* self.pm.check_exit_conditions(position, df); the bar the caller stands at is no
\* argument of it.
CheckExit ==
    /\ pc = "check_exit"
    /\ result' = check_exit_conditions(call.position, call.df)
    /\ pc' = "returned"
    /\ UNCHANGED <<positions, trades, tlog, sym, bars, bi, queue, current_signal, nsig, call>>

NextExit == CheckExit

SpecExit == InitExit /\ [][NextExit]_vars

(***************************************************************************)
(* calculate_position_size as a function of its arguments.                 *)
(***************************************************************************)
\* The atr and the capital of a call; numpy tells whether atr is a numpy.float64
\* (an element of a float column) or a Python float.
InitSize ==
    /\ positions = <<>>
    /\ trades = <<>>
    /\ tlog = <<>>
    /\ pc = "calculate"
    /\ sym = 1
    /\ bars = <<>>
    /\ bi = 0
    /\ queue = <<>>
    /\ current_signal = NoSignal
    /\ nsig = 0
    /\ \E atr \in {P(a) : a \in (0 - SizeRange)..SizeRange}, k \in 1..(4 * SizeRange),
          numpy \in BOOLEAN :
        call = [op |-> "calculate_position_size", atr |-> atr, capital |-> 250 * k,
                numpy |-> numpy]
    /\ result = "none"

\* self.calculate_position_size(symbol, entry_price, atr, capital): dividing by a
\* numpy.float64 zero raises nothing and gives inf, which round() leaves as it is.
CalcSize ==
    /\ pc = "calculate"
    /\ result' = IF call.numpy /\ call.atr * STOP_LOSS_ATR * LEVERAGE = 0 THEN Inf
                 ELSE calculate_position_size(SYMBOLS[sym], P(10), call.atr, call.capital)
    /\ pc' = "returned"
    /\ UNCHANGED <<positions, trades, tlog, sym, bars, bi, queue, current_signal, nsig, call>>

NextSize == CalcSize

SpecSize == InitSize /\ [][NextSize]_vars

(***************************************************************************)
(* check_position_limit as a function of its arguments and of the store.   *)
(***************************************************************************)
\* Documents of long positions at 10 with quantity 5, open or closed, whose stop
\* makes their risk a fifth, four fifths, nine tenths and the whole of
\* max_risk * capital.
LimitDocs ==
    { [position_doc(1, SYMBOLS[1], "long", P(10), 1, 5, P(1), stop, P(13))
         EXCEPT !.status = st] :
        stop \in {P(8), P(2), P(1), None}, st \in {"open", "closed"} }

\* The positions collection: up to StoreLen documents, _id = index.
LimitStores ==
    UNION { { [i \in 1..n |-> [f[i] EXCEPT !.id = i]] : f \in [1..n -> LimitDocs] } :
            n \in 0..StoreLen }

InitLimit ==
    /\ positions \in LimitStores
    /\ trades = <<>>
    /\ tlog = <<>>
    /\ pc = "check_limit"
    /\ sym = 1
    /\ bars = <<>>
    /\ bi = 0
    /\ queue = <<>>
    /\ current_signal = NoSignal
    /\ nsig = 0
    /\ \E side \in {"long", "short"}, a \in {0 - 1, 0, 1, 2, 11} :
        call = [op |-> "check_position_limit", side |-> side, entry_price |-> P(10),
                atr |-> P(a)]
    /\ result = "none"

\* self.pm.check_position_limit(symbol, signal_type, entry_price, atr_val)
CheckLimit ==
    /\ pc = "check_limit"
    /\ result' = check_position_limit(positions, SYMBOLS[sym], call.side, call.entry_price, call.atr)
    /\ pc' = "returned"
    /\ UNCHANGED <<positions, trades, tlog, sym, bars, bi, queue, current_signal, nsig, call>>

NextLimit == CheckLimit

SpecLimit == InitLimit /\ [][NextLimit]_vars

(***************************************************************************)
(* Two engines replaying the same symbol against one store, each in the    *)
(* entry phase of the same bar.  Every call of the PositionManager is one  *)
(* step: check_position_limit, has_open_position and open_position of one *)
(* run may be interleaved with those of another.  Here pc, current_signal, *)
(* nsig and call hold one value per run; call[r] is the qty the check      *)
(* returned to run r.                                                      *)
(***************************************************************************)
Runs == {"run1", "run2"}

\* The bar all runs stand at.
RaceBar ==
    Bar([open |-> P(10), high |-> P(11), low |-> P(10), close |-> P(10), atr_14 |-> P(1)], 1)

\* next(signals_iter, None) of a run: a signal due at the bar, or the end.
RaceNextSignals(n) ==
    {NoSignal} \cup (IF n < MaxSignals THEN {s \in Signals : s.timestamp = 1} ELSE {})

InitRace ==
    /\ positions = <<>>
    /\ trades = <<>>
    /\ tlog = <<>>
    /\ pc = [r \in Runs |-> "check"]
    /\ sym = 1
    /\ bars = <<RaceBar>>
    /\ bi = 1
    /\ queue = <<>>
    /\ current_signal \in [Runs -> {s \in Signals : s.timestamp = 1}]
    /\ nsig = [r \in Runs |-> 1]
    /\ call = [r \in Runs |-> None]
    /\ result = "none"

\* current_signal = next(signals_iter, None) of run r, back at the loop condition.
RaceAdvance(r) ==
    /\ \E n \in RaceNextSignals(nsig[r]) :
        /\ current_signal' = [current_signal EXCEPT ![r] = n]
        /\ nsig' = [nsig EXCEPT ![r] = IF n = NoSignal THEN @ ELSE @ + 1]
    /\ pc' = [pc EXCEPT ![r] = "check"]
    /\ call' = [call EXCEPT ![r] = None]

\* qty = self.pm.check_position_limit(...); if qty and qty > 0
RaceCheck(r) ==
    /\ pc[r] = "check"
    /\ current_signal[r] # NoSignal
    /\ LET s == current_signal[r]
           qty == check_position_limit(positions, SYMBOLS[sym], s.signal_type, s.value,
                                       bars[bi].atr_14)
       IN  IF SizeAdmitted(qty)
           THEN /\ pc' = [pc EXCEPT ![r] = "duplicate"]
                /\ call' = [call EXCEPT ![r] = qty]
                /\ UNCHANGED <<current_signal, nsig>>
           ELSE RaceAdvance(r)
    /\ UNCHANGED <<positions, trades, tlog, sym, bars, bi, queue, result>>

\* if self.pm.has_open_position(symbol, signal_type, entry_price)
RaceDuplicate(r) ==
    /\ pc[r] = "duplicate"
    /\ IF has_open_position(positions, SYMBOLS[sym], current_signal[r].signal_type,
                            current_signal[r].value)
       THEN RaceAdvance(r)
       ELSE /\ pc' = [pc EXCEPT ![r] = "open"]
            /\ UNCHANGED <<current_signal, nsig, call>>
    /\ UNCHANGED <<positions, trades, tlog, sym, bars, bi, queue, result>>

\* pos = self.pm.open_position(...), with the qty the check returned.
RaceOpen(r) ==
    /\ pc[r] = "open"
    /\ LET s == current_signal[r]
       IN  positions' = open_position(positions, SYMBOLS[sym], s.signal_type, s.value,
                                      bars[bi].timestamp, call[r], bars[bi].atr_14,
                                      s.stop_loss, s.take_profit, "none").positions
    /\ RaceAdvance(r)
    /\ UNCHANGED <<trades, tlog, sym, bars, bi, queue, result>>

NextRace == \E r \in Runs : RaceCheck(r) \/ RaceDuplicate(r) \/ RaceOpen(r)

SpecRace == InitRace /\ [][NextRace]_vars

(***************************************************************************)
(* HistoricalFetcher.fetch_ohlcv_range (src/backtest_data_fetch.py).  A    *)
(* candle is its timestamp; call holds since and until and whether the     *)
(* exchange answers ("up") or raises on every request ("down"); result is  *)
(* all_data.                                                               *)
(***************************************************************************)
\* The page size asked of the exchange (1000 in the source).
OHLCV_LIMIT == 2

\* What exchange.fetch_ohlcv(since = since, limit = OHLCV_LIMIT) may return: up to
\* OHLCV_LIMIT candles from since on, ascending, some of them past until.
Pages(since) ==
    {<<>>} \cup { <<a>> : a \in since..(FetchUntil + 1) }
           \cup { q \in { <<a, b>> : a \in since..FetchUntil, b \in (since + 1)..(FetchUntil + 1) } :
                    q[1] < q[2] }

InitFetch ==
    /\ positions = <<>>
    /\ trades = <<>>
    /\ tlog = <<>>
    /\ pc = "fetch_loop"
    /\ sym = 1
    /\ bars = <<>>
    /\ bi = 0
    /\ queue = <<>>
    /\ current_signal = NoSignal
    /\ nsig = 0
    /\ \E since \in 0..FetchUntil, exchange \in {"up", "down"} :
        call = [op |-> "fetch_ohlcv_range", since |-> since, until |-> FetchUntil,
                exchange |-> exchange]
    /\ result = <<>>

\* while since < until: false, return all_data.
FetchDone ==
    /\ pc = "fetch_loop"
    /\ ~(call.since < call.until)
    /\ pc' = "returned"
    /\ UNCHANGED <<positions, trades, tlog, sym, bars, bi, queue, current_signal, nsig, call, result>>

\* One pass of the loop whose fetch returns a page.
FetchPage ==
    /\ pc = "fetch_loop"
    /\ call.since < call.until
    /\ call.exchange = "up"
    /\ \E page \in Pages(call.since) :
        LET ohlcv == SelectSeq(page, LAMBDA c : c < call.until)
        IN  IF ohlcv = <<>>
            THEN /\ pc' = "returned"
                 /\ UNCHANGED <<call, result>>
            ELSE /\ result' = result \o ohlcv
                 /\ call' = [call EXCEPT !.since = ohlcv[Len(ohlcv)] + 1]
                 /\ pc' = IF Len(ohlcv) < OHLCV_LIMIT THEN "returned" ELSE "fetch_loop"
    /\ UNCHANGED <<positions, trades, tlog, sym, bars, bi, queue, current_signal, nsig>>

\* One pass of the loop whose fetch raises: logged, then asyncio.sleep(2).
FetchRaise ==
    /\ pc = "fetch_loop"
    /\ call.since < call.until
    /\ pc' = "sleep"
    /\ UNCHANGED <<positions, trades, tlog, sym, bars, bi, queue, current_signal, nsig, call, result>>

\* The sleep is over: back to the loop condition, since as it was.
FetchRetry ==
    /\ pc = "sleep"
    /\ pc' = "fetch_loop"
    /\ UNCHANGED <<positions, trades, tlog, sym, bars, bi, queue, current_signal, nsig, call, result>>

NextFetch ==
    \/ FetchDone
    \/ FetchPage
    \/ FetchRaise
    \/ FetchRetry

\* The coroutine is scheduled as long as it can take a step.
SpecFetch == InitFetch /\ [][NextFetch]_vars /\ WF_vars(NextFetch)

(***************************************************************************)
(* The claims.                                                             *)
(***************************************************************************)
OpenCount == Len(get_open_positions(positions))

Range(q) == {q[i] : i \in 1..Len(q)}

TradesOf(id) == {i \in 1..Len(tlog) : tlog[i].pid = id}

\* C1: in a sequential run from an empty store, the number of positions with
\* status 'open' never exceeds max_positions.
C1_MaxPositions == OpenCount <= MAX_POSITIONS

\* C1 witness: a signal is due while max_positions positions are open, it is no
\* duplicate and its risk alone would pass: the count is what rejects it.
C1_LimitBinds ==
    /\ pc = "entry"
    /\ SignalDue
    /\ OpenCount = MAX_POSITIONS
    /\ ~has_open_position(positions, SYMBOLS[sym], current_signal.signal_type, current_signal.value)
    /\ check_position_limit_nocount(positions, SYMBOLS[sym], current_signal.signal_type,
                                    current_signal.value, bars[bi].atr_14) # None

\* C2: after every successful open_position, the sum over the open positions of
\* |entry_price - stop_loss| * qty, with the persisted stop_loss, is at most
\* max_risk * capital.
C2_PersistedRiskWithinLimit ==
    [][Len(positions') > Len(positions) => total_risk(positions') <= RiskLimit]_vars

\* C3: a stop_loss or take_profit trade written while bar b is processed has a
\* close time no later than b's timestamp.
C3_NoExitFromLaterBars ==
    \A i \in 1..Len(trades) :
        trades[i].reason \in {"stop_loss", "take_profit"}
            => ToDatetime(trades[i].close_time) <= tlog[i].at

\* C4: every closed position has exactly one trade and every trade belongs to a
\* closed position, also when a store write of close_position fails.
C4_OneTradePerClosedPosition ==
    /\ \A id \in 1..Len(positions) :
        positions[id].status = "closed" => Cardinality(TradesOf(id)) = 1
    /\ \A i \in 1..Len(tlog) : positions[tlog[i].pid].status = "closed"

\* C5: close_position on a position that is already closed returns None and
\* leaves positions and trades as they were.
C5_CloseOfClosedFails ==
    [][(/\ call'.op = "close_position"
        /\ call'.id \in 1..Len(positions)
        /\ positions[call'.id].status = "closed")
       => (result' = "None" /\ positions' = positions /\ trades' = trades)]_vars

\* C6: close_position with an id that matches no position returns None and
\* leaves positions and trades as they were.
C6_CloseOfUnknownFails ==
    [][(call'.op = "close_position" /\ call'.id \notin 1..Len(positions))
       => (result' = "None" /\ positions' = positions /\ trades' = trades)]_vars

\* C6 witness: the store holds a position and the last call was a close_position
\* with an id that matches none.
C6_UnknownIdClosed ==
    /\ call.op = "close_position"
    /\ call.id \notin 1..Len(positions)
    /\ Len(positions) > 0
    /\ result = "None"

\* The replay of the symbol is over: the bars are exhausted and the forced close
\* has gone through its list.
ReplayFinished == pc = "force" /\ queue = <<>>

\* C7: when the replay of a symbol has finished, no position has status 'open'.
C7_NoneOpenAfterReplay == (ReplayFinished \/ pc = "complete") => OpenCount = 0

\* C7 witness: a replay has finished and its forced close closed a position.
C7_ForcedCloseDone ==
    /\ ReplayFinished
    /\ \E i \in 1..Len(tlog) : tlog[i].phase = "force"

\* C8: every position still open when the bars are exhausted (none of its trades
\* comes from an exit phase) is waiting in the forced close or has a trade at the
\* last bar's close and timestamp.
C8_ForcedCloseAtLastBar ==
    pc = "force" =>
        \A id \in 1..Len(positions) :
            (\A i \in TradesOf(id) : tlog[i].phase # "exit")
                => \/ id \in Range(queue) /\ positions[id].status = "open"
                   \/ /\ positions[id].status = "closed"
                      /\ \E i \in TradesOf(id) :
                            /\ trades[i].exit_price = bars[Len(bars)].close
                            /\ trades[i].close_time = IsoFormat(bars[Len(bars)].timestamp)

\* C8 witness: the forced close has closed a position that was opened before the
\* last bar, and the first bar's close is not the last bar's.
C8_ForcedTradeWritten ==
    /\ ReplayFinished
    /\ bars[1].close # bars[Len(bars)].close
    /\ \E i \in 1..Len(tlog) :
        /\ tlog[i].phase = "force"
        /\ ToDatetime(trades[i].open_time) < bars[Len(bars)].timestamp

SameButStatus(p, q) == [p EXCEPT !.status = ""] = [q EXCEPT !.status = ""]

\* C10: a position is created with status 'open' and only by the entry phase's
\* open_position; its status changes only from 'open' to 'closed' and only in a
\* step of close_position; no other field ever changes and no position is removed.
C10_StatusOneWay ==
    [][/\ Len(positions') >= Len(positions)
       /\ \A i \in 1..Len(positions) :
            /\ SameButStatus(positions'[i], positions[i])
            /\ positions'[i].status # positions[i].status
                => /\ positions[i].status = "open"
                   /\ positions'[i].status = "closed"
                   /\ pc \in {"exit", "force"}
       /\ \A i \in (Len(positions) + 1)..Len(positions') :
            positions'[i].status = "open" /\ pc = "entry"]_vars

\* C10 witness: a position has been closed while another one is open.
C10_ClosedAndOpen ==
    \E i, j \in 1..Len(positions) :
        positions[i].status = "closed" /\ positions[j].status = "open"

\* A step of the entry phase that processes current_signal.
SignalProcessed == pc = "entry" /\ pc' = "entry" /\ bi' = bi

\* C11: within a replay a signal is processed only in the entry phase of the first
\* bar whose timestamp is >= its own; processing it moves the cursor to the next
\* signal of the sorted list (or to its end), whatever became of the signal; the
\* cursor never moves back, never moves outside the entry phase and, once at the
\* end, stays there.
C11_SignalsOnceInOrder ==
    [][/\ SignalProcessed =>
            /\ current_signal # NoSignal
            /\ current_signal.timestamp <= bars[bi].timestamp
            /\ bi > 1 => bars[bi - 1].timestamp < current_signal.timestamp
            /\ \/ current_signal' = NoSignal /\ nsig' = nsig
               \/ /\ nsig' = nsig + 1
                  /\ current_signal' # NoSignal
                  /\ current_signal'.timestamp >= current_signal.timestamp
       /\ (pc = "entry" /\ ~SignalProcessed) =>
            ~(current_signal # NoSignal /\ current_signal.timestamp <= bars[bi].timestamp)
       /\ (pc # "symbol" /\ ~SignalProcessed) =>
            current_signal' = current_signal /\ nsig' = nsig]_vars

\* C11 witness: at a bar after the first a signal of that bar is due, and a signal
\* processed before it opened no position.
C11_DroppedThenNext ==
    /\ pc = "entry"
    /\ bi > 1
    /\ SignalDue
    /\ current_signal.timestamp = current_time
    /\ nsig - 1 > Len(positions)

\* check_exit_conditions has returned: call holds its arguments, result its value.
ExitReturned == pc = "returned" /\ call.op = "check_exit_conditions"

\* The triggers of the table of exits.
StopTouched(position, bar) ==
    /\ position.stop_loss # None
    /\ position.take_profit # None
    /\ IF position.side = "long" THEN bar.low <= position.stop_loss
       ELSE bar.high >= position.stop_loss

TakeTouched(position, bar) ==
    /\ position.stop_loss # None
    /\ position.take_profit # None
    /\ IF position.side = "long" THEN bar.high >= position.take_profit
       ELSE bar.low <= position.take_profit

\* The exit prices of the table of exits, in ticks.
TableStopPrice(position, bar) ==
    IF position.side = "long"
    THEN (position.stop_loss * (PriceScale - SLIPPAGE)) \div PriceScale
    ELSE ((IF bar.open >= position.stop_loss THEN bar.open ELSE position.stop_loss)
            * (PriceScale + SLIPPAGE)) \div PriceScale

TableTakePrice(position, bar) ==
    IF position.side = "long"
    THEN (position.take_profit * (PriceScale - SLIPPAGE)) \div PriceScale
    ELSE ((IF bar.open <= position.take_profit THEN bar.open ELSE position.take_profit)
            * (PriceScale + SLIPPAGE)) \div PriceScale

\* The rows of the frame from the position's open time on, and those of them on
\* which a trigger fires.
SinceEntry(position, df) ==
    {j \in 1..Len(df) : df[j].timestamp >= ToDatetime(position.open_time)}

Firing(position, df) ==
    {j \in SinceEntry(position, df) : StopTouched(position, df[j]) \/ TakeTouched(position, df[j])}

\* The row of the frame the returned exit_time names.
ExitBar == CHOOSE b \in Range(call.df) : b.timestamp = result.exit_time

\* C12: when the first bar from the open time on that touches the stop or the take
\* of the position touches both, check_exit_conditions returns an exit with reason
\* stop_loss at the stop-loss exit price of that bar.
C12_StopBeforeTake ==
    ExitReturned =>
        \A j \in Firing(call.position, call.df) :
            (/\ \A k \in Firing(call.position, call.df) : k >= j
             /\ StopTouched(call.position, call.df[j])
             /\ TakeTouched(call.position, call.df[j]))
            => /\ result.exited
               /\ result.reason = "stop_loss"
               /\ result.exit_price = TableStopPrice(call.position, call.df[j])

\* C12 witness: a call has returned an exit on a bar that touches both the stop
\* and the take of a position whose signal carried both.
C12_BothTouched ==
    /\ ExitReturned
    /\ result.exited
    /\ call.position.stop_loss > 0
    /\ StopTouched(call.position, ExitBar)
    /\ TakeTouched(call.position, ExitBar)

\* C13: an exit returned by check_exit_conditions has reason stop_loss or
\* take_profit; its bar satisfies the trigger of that reason and its price is the
\* table's: stop * (1 - slippage) and take * (1 - slippage) for a long position,
\* max(open, stop) * (1 + slippage) and min(open, take) * (1 + slippage) for a
\* short one.
C13_ExitPriceOfTable ==
    (ExitReturned /\ result.exited) =>
        \/ /\ result.reason = "stop_loss"
           /\ StopTouched(call.position, ExitBar)
           /\ result.exit_price = TableStopPrice(call.position, ExitBar)
        \/ /\ result.reason = "take_profit"
           /\ TakeTouched(call.position, ExitBar)
           /\ ~StopTouched(call.position, ExitBar)
           /\ result.exit_price = TableTakePrice(call.position, ExitBar)

\* C13 witness: a short position was stopped on a bar that opened above its stop.
C13_ShortStoppedAboveStop ==
    /\ ExitReturned
    /\ result.exited
    /\ call.position.side = "short"
    /\ result.reason = "stop_loss"
    /\ call.position.stop_loss > 0
    /\ ExitBar.open > call.position.stop_loss

\* C14: every trade written by close_position has gross_pnl = (exit - entry) * qty
\* for a long position and (entry - exit) * qty for a short one, fee =
\* (|entry| + |exit|) * qty * fee_rate / leverage and pnl = gross_pnl - fee (fee and
\* pnl in units of 1 / (FeeScale * LEVERAGE)), entry, qty and side being those of
\* the position it closed.
C14_TradePnl ==
    \A i \in 1..Len(trades) :
        LET t == trades[i]
            p == positions[tlog[i].pid]
        IN  /\ t.gross_pnl = IF p.side = "long" THEN (t.exit_price - p.entry_price) * p.qty
                             ELSE (p.entry_price - t.exit_price) * p.qty
            /\ t.fee = (Abs(p.entry_price) + Abs(t.exit_price)) * p.qty * FEE_RATE
            /\ t.pnl = t.gross_pnl * FeeScale * LEVERAGE - t.fee

\* C14 witness: the ledger holds the trade of a short position closed below its
\* entry and the trade of a long position.
C14_ShortAndLongTraded ==
    /\ \E i \in 1..Len(trades) :
        trades[i].side = "short" /\ trades[i].exit_price < trades[i].entry_price
    /\ \E i \in 1..Len(trades) : trades[i].side = "long"

\* C15: calculate_position_size returns 0 whenever atr * stop_loss_atr <= 0, and
\* otherwise capital * risk_per_trade / (atr * stop_loss_atr * leverage) rounded to
\* the symbol's precision.
C15_SizeZeroOrRounded ==
    (pc = "returned" /\ call.op = "calculate_position_size") =>
        IF call.atr * STOP_LOSS_ATR <= 0 THEN result = 0
        ELSE result = RoundDiv(call.capital * RISK_PER_TRADE * PriceScale * QtyScale,
                               PctScale * call.atr * STOP_LOSS_ATR * LEVERAGE)

\* The size calculate_position_size gives the signal at the cursor on this bar.
ComputedSize == calculate_position_size(SYMBOLS[sym], current_signal.value, bars[bi].atr_14, CAPITAL)

\* C16: every position the loop inserts has qty > 0, and processing a signal whose
\* computed size is zero or negative inserts nothing.
C16_OnlyPositiveSizesOpened ==
    [][/\ \A i \in 1..Len(positions') : positions'[i].qty > 0
       /\ (SignalProcessed /\ ComputedSize <= 0) => positions' = positions]_vars

\* C16 witness: on a bar whose atr sizes to zero or less the first signal has been
\* processed and the store holds no position.
C16_ZeroSizeDropped ==
    /\ pc = "entry"
    /\ bi = 1
    /\ calculate_position_size(SYMBOLS[sym], P(10), bars[bi].atr_14, CAPITAL) <= 0
    /\ current_signal = NoSignal \/ nsig > 1
    /\ positions = <<>>

\* C17: no two positions with status 'open' have the same symbol, side and
\* entry_price.
C17_NoDuplicateOpen ==
    \A i, j \in 1..Len(positions) :
        (/\ i # j
         /\ positions[i].status = "open"
         /\ positions[j].status = "open")
        => <<positions[i].symbol, positions[i].side, positions[i].entry_price>>
            # <<positions[j].symbol, positions[j].side, positions[j].entry_price>>

\* C17 witness: the signal due has the symbol, side and price of an open position
\* and check_position_limit admits it: has_open_position alone keeps it out.
C17_DuplicateDue ==
    /\ pc = "entry"
    /\ SignalDue
    /\ has_open_position(positions, SYMBOLS[sym], current_signal.signal_type, current_signal.value)
    /\ check_position_limit(positions, SYMBOLS[sym], current_signal.signal_type,
                            current_signal.value, bars[bi].atr_14) # None

\* C18: a failure of open_position or close_position never aborts the run.
C18_RunNeverAborts == pc # "crashed"

\* C19: within a bar the exit phase comes before the entry phase: positions are
\* inserted only in the entry phase, stop and take trades are written only in the
\* exit phase, and an entry phase is followed by an exit phase only of the next
\* bar; the positions an exit phase evaluates were all opened at an earlier bar,
\* and the exit phase of the next bar evaluates every open position, those opened
\* at this bar included.
C19_ExitsBeforeEntries ==
    [][/\ Len(positions') > Len(positions) => pc = "entry"
       /\ (Len(trades') > Len(trades) /\ pc # "force") => pc = "exit"
       /\ (pc = "entry" /\ pc' = "exit") => bi' = bi + 1
       /\ pc' = "exit" =>
            \A id \in Range(queue') : ToDatetime(positions'[id].open_time) < bars'[bi'].timestamp
       /\ (pc = "entry" /\ bi' = bi + 1) =>
            Range(queue') = {id \in 1..Len(positions) : positions[id].status = "open"}]_vars

\* C19 witness: a position opened at one bar was closed by the exit phase of the
\* next bar.
C19_ClosedAtNextBar ==
    \E i \in 1..Len(trades) :
        /\ tlog[i].phase = "exit"
        /\ tlog[i].at = ToDatetime(trades[i].open_time) + 1

\* C20: check_exit_conditions returns not exited exactly when no bar of the frame
\* with timestamp >= the position's open time fires a trigger; otherwise it
\* returns an exit whose time is the timestamp of the earliest such bar, whatever
\* bar the caller stands at.
C20_EarliestFiringBar ==
    ExitReturned =>
        LET firing == Firing(call.position, call.df)
        IN  IF firing = {} THEN result = NotExited
            ELSE /\ result.exited
                 /\ \E j \in firing :
                      /\ \A k \in firing : j <= k
                      /\ result.exit_time = call.df[j].timestamp

\* C20 witness: the exit returned is on a bar after the entry bar, which fired
\* nothing, a bar before the open time would have fired, and the caller stands at
\* a bar before the exit's.
C20_LaterBarDecides ==
    /\ ExitReturned
    /\ result.exited
    /\ result.exit_time > ToDatetime(call.position.open_time)
    /\ call.df[call.at].timestamp < result.exit_time
    /\ \E j \in 1..Len(call.df) :
        /\ call.df[j].timestamp < ToDatetime(call.position.open_time)
        /\ StopTouched(call.position, call.df[j]) \/ TakeTouched(call.position, call.df[j])

\* The position was opened from a signal without a stop_loss or without a
\* take_profit: open_position wrote 0.0 in its place (every stop and take a signal
\* carries is positive).
OpenedWithoutStopOrTake(position) == position.stop_loss = 0 \/ position.take_profit = 0

\* C21: a position opened through open_position with an absent stop-loss or an
\* absent take-profit has no stop_loss or take_profit trade: its only trade, if
\* any, is the forced close's.
C21_AbsentStopNeverExits ==
    \A i \in 1..Len(trades) :
        OpenedWithoutStopOrTake(positions[tlog[i].pid])
            => /\ tlog[i].phase = "force"
               /\ trades[i].reason \notin {"stop_loss", "take_profit"}

\* The sum over the open positions 1..n of the store of |entry - stop| * qty.
RECURSIVE OpenRiskUpTo(_)
OpenRiskUpTo(n) ==
    IF n = 0 THEN 0
    ELSE OpenRiskUpTo(n - 1)
         + IF positions[n].status = "open"
           THEN (IF positions[n].entry_price >= positions[n].stop_loss
                 THEN positions[n].entry_price - positions[n].stop_loss
                 ELSE positions[n].stop_loss - positions[n].entry_price) * positions[n].qty
           ELSE 0

\* The quantity the sizing rule gives the call, and the risk the check adds for it.
CallSize == calculate_position_size(SYMBOLS[sym], call.entry_price, call.atr, CAPITAL)

CallRisk == call.atr * STOP_LOSS_ATR * CallSize

\* max_risk * capital, in ticks * quantity units.
MaxRiskCapital == (MAX_RISK * CAPITAL * PriceScale * QtyScale) \div PctScale

\* C22: check_position_limit returns None exactly when the sized quantity is <= 0,
\* or max_positions or more positions are open, or the risk of the open positions
\* plus atr * stop_loss_atr * quantity is > max_risk * capital; otherwise, a total
\* equal to the limit included, it returns the sized quantity.
C22_RejectedExactlyWhen ==
    (pc = "returned" /\ call.op = "check_position_limit") =>
        IF \/ CallSize <= 0
           \/ Cardinality({i \in 1..Len(positions) : positions[i].status = "open"}) >= MAX_POSITIONS
           \/ OpenRiskUpTo(Len(positions)) + CallRisk > MaxRiskCapital
        THEN result = None
        ELSE result = CallSize

\* C22 witness: the call was admitted with a total risk equal to max_risk * capital.
C22_AdmittedAtLimit ==
    /\ pc = "returned"
    /\ call.op = "check_position_limit"
    /\ result = CallSize
    /\ CallSize > 0
    /\ OpenRiskUpTo(Len(positions)) + CallRisk = MaxRiskCapital

\* The signal at the cursor is rejected by check_position_limit, or is a
\* duplicate of an open position.
SignalRefused ==
    \/ check_position_limit(positions, SYMBOLS[sym], current_signal.signal_type,
                            current_signal.value, bars[bi].atr_14) = None
    \/ has_open_position(positions, SYMBOLS[sym], current_signal.signal_type, current_signal.value)

\* C23: processing a signal that check_position_limit rejects or has_open_position
\* finds duplicate leaves positions and trades as they were and moves the cursor
\* to the next signal, and nothing else changes.
C23_RefusedSignalOnlyAdvances ==
    [][(SignalProcessed /\ SignalRefused) =>
            /\ positions' = positions
            /\ trades' = trades
            /\ tlog' = tlog
            /\ (nsig' = nsig + 1 /\ current_signal' # NoSignal)
                    \/ (nsig' = nsig /\ current_signal' = NoSignal)
            /\ UNCHANGED <<pc, sym, bars, bi, queue>>]_vars

\* C23 witness: a signal is due that is no duplicate and finds fewer than
\* max_positions positions open, and check_position_limit rejects it for the risk;
\* a signal before it was refused as well.
C23_RiskRejectionDue ==
    /\ pc = "entry"
    /\ SignalDue
    /\ OpenCount < MAX_POSITIONS
    /\ ~has_open_position(positions, SYMBOLS[sym], current_signal.signal_type, current_signal.value)
    /\ check_position_limit(positions, SYMBOLS[sym], current_signal.signal_type,
                            current_signal.value, bars[bi].atr_14) = None
    /\ nsig - 1 > Len(positions)

\* C24: with two interleaved runs the limit of max_positions does not hold: the
\* number of open positions goes beyond it, by one position at most (a run inserts
\* only after its own check saw fewer than max_positions open).
C24_OvershootByOne == OpenCount <= MAX_POSITIONS + 1

\* C24 witness: more than max_positions positions are open.
C24_LimitExceeded == OpenCount > MAX_POSITIONS

\* C25: while a symbol is replayed, every position in the list of an exit phase
\* or of the forced close is a position of that symbol, and so is every trade of
\* the ledger handed to the performance analysis of the symbol.
C25_OnlyOwnSymbol ==
    /\ pc \in {"exit", "force"} =>
        \A id \in Range(queue) : positions[id].symbol = SYMBOLS[sym]
    /\ ReplayFinished =>
        \A i \in 1..Len(trades_list) : trades_list[i].symbol = SYMBOLS[sym]

\* C26: when the exchange raises on every attempt, fetch_ohlcv_range still
\* returns after finitely many attempts.
C26_FetchGivesUp == (call.exchange = "down") ~> (pc = "returned")

\* C27: the close time of every trade is not earlier than the open time of the
\* position it closed, whatever its reason.
C27_CloseNotBeforeOpen ==
    \A i \in 1..Len(trades) :
        /\ trades[i].open_time = positions[tlog[i].pid].open_time
        /\ ToDatetime(trades[i].close_time) >= ToDatetime(trades[i].open_time)

\* C27 witness: the ledger holds a stop_loss or take_profit trade closed on its
\* entry bar and a trade of the forced close that was open for at least a bar.
C27_ClosedOnEntryBar ==
    /\ \E i \in 1..Len(trades) :
        /\ tlog[i].phase = "exit"
        /\ ToDatetime(trades[i].close_time) = ToDatetime(trades[i].open_time)
    /\ \E i \in 1..Len(trades) :
        /\ tlog[i].phase = "force"
        /\ ToDatetime(trades[i].close_time) > ToDatetime(trades[i].open_time)

\* The position was opened at the last bar of the frame being replayed.
OpenedAtLastBar(id) ==
    bars # <<>> /\ ToDatetime(positions[id].open_time) = bars[Len(bars)].timestamp

\* C28: a position opened in the entry phase of the last bar is in the list of no
\* exit phase; every trade of it is the forced close's, at the last bar's close
\* price, and when the replay has finished it has one.
C28_LastBarEntryForceClosed ==
    \A id \in 1..Len(positions) :
        OpenedAtLastBar(id) =>
            /\ pc = "exit" => id \notin Range(queue)
            /\ \A i \in TradesOf(id) :
                /\ tlog[i].phase = "force"
                /\ trades[i].exit_price = bars[Len(bars)].close
            /\ ReplayFinished => TradesOf(id) # {}

\* C28 witness: the replay has finished and the forced close has closed a long
\* position opened at the last bar, whose low is at or below the position's stop.
C28_BreachedButForceClosed ==
    /\ ReplayFinished
    /\ \E id \in 1..Len(positions) :
        /\ OpenedAtLastBar(id)
        /\ positions[id].side = "long"
        /\ positions[id].stop_loss > 0
        /\ bars[Len(bars)].low <= positions[id].stop_loss
        /\ positions[id].status = "closed"

====
